---- MODULE Spec2Model ----
(***************************************************************************)
(* Model of the dyrectorio container runner:                               *)
(*   - image reference parsing and serialization (package image),          *)
(*   - the stack lifecycle of the CLI (package cli, runner.go):            *)
(*     StartContainers ("up") and StopContainers ("down").                 *)
(* Strings are sequences of one-character strings.                         *)
(***************************************************************************)
EXTENDS Integers, Sequences, FiniteSets, TLC

VARIABLES
    \* ---- package image ----
    imageName,   \* the string handed to URIFromString
    image,       \* the *URI the caller holds (NoImage when nil)
    parseErr,    \* error returned by URIFromString ("none" when nil)
    before,      \* the URI fields as they were before the last format call
    out,         \* the string returned by the last format call
    ipc,         \* last image operation: "init", "parsed", "String", "StringNoTag"
    \* ---- package cli ----
    settings,    \* the Disabled flags of settings.Containers for the current run
    command,     \* settings.Command of the current run
    status,      \* "idle", "running", "done", "fatal" (log.Fatal exits the process)
    pc,          \* index of the next statement of the running sequence
    host,        \* the container runtime: container name -> container state
    routing,     \* TRUE when traefik.dev.yml was written into the ingress container
    calls,       \* runtime operations invoked by the current run, in order
    prevRun,     \* the run before the current one, when it ran to completion:
                 \* its command, its settings and the names it created, in order
    \* ---- container-merge ----
    layers,      \* the ordered configs handed to mergeConfigsWithConcreteConfig
    instance,    \* the concrete (instance) config handed to it
    merged,      \* its result
    mpc,         \* "init" or "merged"
    \* ---- image.Pull ----
    logger,      \* TRUE when the logger argument is not nil
    now,         \* the clock, in ticks
    lastLog,     \* the lastLog variable of Pull: {} is the zero time.Time
    log,         \* lines written to the logger: their kind and the time of writing
    decoded,     \* number of messages decoded from the progress stream
    decodeResult,\* outcome of the last d.Decode: "none", "msg", "EOF", "error"
    pullErr,     \* the error Pull returned ("nil" when none)
    ppc          \* position in Pull: "start", "loop", "write", "stamp", "returned"

imageVars == <<imageName, image, parseErr, before, out, ipc>>
cliVars   == <<settings, command, status, pc, host, routing, calls, prevRun>>
mergeVars == <<layers, instance, merged, mpc>>
pullVars  == <<logger, now, lastLog, log, decoded, decodeResult, pullErr, ppc>>
vars      == <<imageName, image, parseErr, before, out, ipc,
               settings, command, status, pc, host, routing, calls, prevRun,
               layers, instance, merged, mpc,
               logger, now, lastLog, log, decoded, decodeResult, pullErr, ppc>>

(***************************************************************************)
(* Bounds                                                                  *)
(***************************************************************************)
MaxLen == 7        \* longest image string given to URIFromString

Alphabet == {"a", "b", "/", ":"}

RECURSIVE StringsOfLen(_)
StringsOfLen(n) ==
    IF n = 0 THEN {<<>>}
    ELSE {<<c>> \o s : c \in Alphabet, s \in StringsOfLen(n - 1)}

Strings == UNION {StringsOfLen(n) : n \in 0..MaxLen}

\* field values of URI struct literals built directly by a caller
FieldValues == {<<>>, <<"a">>, <<"b", "/", "a">>}

(***************************************************************************)
(* String helpers (Go strings package)                                     *)
(***************************************************************************)
RECURSIVE Split(_, _)
Split(s, sep) ==
    IF s = <<>> THEN << <<>> >>
    ELSE LET rest == Split(Tail(s), sep)
         IN  IF Head(s) = sep
             THEN << <<>> >> \o rest
             ELSE << <<Head(s)>> \o Head(rest) >> \o Tail(rest)

RECURSIVE Join(_, _)
Join(parts, sep) ==
    IF parts = <<>> THEN <<>>
    ELSE IF Len(parts) = 1 THEN Head(parts)
    ELSE Head(parts) \o <<sep>> \o Join(Tail(parts), sep)

ContainsRune(s, r) == \E i \in 1..Len(s) : s[i] = r

Count(s, r) == Cardinality({i \in 1..Len(s) : s[i] = r})

\* util.JoinV: the preceding segments joined by the path separator
JoinV(sep, items) == Join(items, sep)

(***************************************************************************)
(* package image                                                           *)
(***************************************************************************)
NoImage == [nil |-> TRUE]

PartCountAfterSplitByColon == 2

DefaultHost ==
    <<"d","o","c","k","e","r",".","i","o","/","l","i","b","r","a","r","y">>

DefaultTag == <<"l","a","t","e","s","t">>

URIFromStringNoTagCheck(name) ==
    IF name = <<>> THEN [err |-> "EmptyError", image |-> NoImage]
    ELSE
      LET nameArr == Split(name, ":")
          tag == IF Len(nameArr) >= PartCountAfterSplitByColon THEN nameArr[2] ELSE <<>>
          repoArr == Split(nameArr[1], "/")
      IN  IF Len(nameArr) > PartCountAfterSplitByColon
          THEN [err |-> "MultiColonRegistryURIError", image |-> NoImage]
          ELSE IF ContainsRune(nameArr[1], "/")
          THEN [err |-> "none",
                image |-> [Host |-> JoinV("/", SubSeq(repoArr, 1, Len(repoArr) - 1)),
                           Name |-> repoArr[Len(repoArr)],
                           Tag  |-> tag]]
          ELSE [err |-> "none",
                image |-> [Host |-> <<>>, Name |-> nameArr[1], Tag |-> tag]]

URIFromStringDropsHost(name) ==
    IF name = <<>> THEN [err |-> "EmptyError", image |-> NoImage]
    ELSE
      LET nameArr == Split(name, ":")
          repoArr == Split(nameArr[1], "/")
      IN  IF Len(nameArr) = 1
          THEN [err |-> "InvalidURIError", image |-> NoImage]
          ELSE IF Len(nameArr) > PartCountAfterSplitByColon
          THEN [err |-> "MultiColonRegistryURIError", image |-> NoImage]
          ELSE [err |-> "none",
                image |-> [Host |-> <<>>, Name |-> repoArr[Len(repoArr)],
                           Tag |-> nameArr[2]]]

URIFromString(name) ==
    IF name = <<>> THEN [err |-> "EmptyError", image |-> NoImage]
    ELSE
      LET nameArr == Split(name, ":")
          repoArr == Split(nameArr[1], "/")
      IN  IF Len(nameArr) = 1
          THEN [err |-> "InvalidURIError", image |-> NoImage]
          ELSE IF Len(nameArr) > PartCountAfterSplitByColon
          THEN [err |-> "MultiColonRegistryURIError", image |-> NoImage]
          ELSE IF ContainsRune(nameArr[1], "/")
          THEN [err |-> "none",
                image |-> [Host |-> JoinV("/", SubSeq(repoArr, 1, Len(repoArr) - 1)),
                           Name |-> repoArr[Len(repoArr)],
                           Tag  |-> nameArr[2]]]
          ELSE [err |-> "none",
                image |-> [Host |-> <<>>, Name |-> nameArr[1], Tag |-> nameArr[2]]]

setDefaultsHostOnly(img) ==
    [img EXCEPT !.Host = IF img.Host = <<>> THEN DefaultHost ELSE img.Host]

\* setDefaults writes through the pointer: the result is the stored URI afterwards
setDefaults(img) ==
    [img EXCEPT !.Host = IF img.Host = <<>> THEN DefaultHost ELSE img.Host,
                !.Tag  = IF img.Tag  = <<>> THEN DefaultTag  ELSE img.Tag]

\* (image *URI).String: the returned string and the URI the pointer holds afterwards
String(img) ==
    LET d == setDefaults(img)
    IN  [out |-> d.Host \o <<"/">> \o d.Name \o <<":">> \o d.Tag, image |-> d]

\* (image *URI).StringNoTag
StringNoTag(img) ==
    LET d == setDefaults(img)
    IN  [out |-> d.Host \o <<"/">> \o d.Name, image |-> d]

Parse ==
    /\ ipc = "init"
    /\ image = NoImage
    /\ LET r == URIFromString(imageName)
       IN  /\ image' = r.image
           /\ parseErr' = r.err
    /\ ipc' = "parsed"
    /\ UNCHANGED <<imageName, before, out>>

FormatString ==
    /\ image # NoImage
    /\ LET r == String(image)
       IN  /\ out' = r.out
           /\ image' = r.image
    /\ before' = image
    /\ ipc' = "String"
    /\ UNCHANGED <<imageName, parseErr>>

FormatStringNoTag ==
    /\ image # NoImage
    /\ LET r == StringNoTag(image)
       IN  /\ out' = r.out
           /\ image' = r.image
    /\ before' = image
    /\ ipc' = "StringNoTag"
    /\ UNCHANGED <<imageName, parseErr>>


(***************************************************************************)
(* package cli: the settings' container table and the container runtime    *)
(***************************************************************************)
Components ==
    {"Traefik", "CruxPostgres", "KratosPostgres", "KratosMigrate", "Kratos",
     "CruxMigrate", "Crux", "CruxUI", "MailSlurper"}

\* settings.Containers.<component>.Name: the stack prefix "s." and the component
ContainerName(c) == <<"s", ".", c>>

ManagedNames == {ContainerName(c) : c \in Components}

\* containers of the host that the stack does not own
LookalikeName  == <<"s", "x", "MailSlurper">>
ContainingName == <<"s", ".", "Traefik", "2">>
ForeignNames   == {LookalikeName, ContainingName}

AllNames == ManagedNames \cup ForeignNames

ContainerStates == {"absent", "created", "running", "exited", "failed"}

ContainerID(name) == <<"id">> \o name

SettingsSet == [CruxDisabled : BOOLEAN, CruxUIDisabled : BOOLEAN]

Disabled(st, flag) ==
    CASE flag = "Crux"   -> st.CruxDisabled
      [] flag = "CruxUI" -> st.CruxUIDisabled
      [] OTHER           -> FALSE

\* the name filter "^<name>$" of the runtime's list call: a regular expression,
\* in which "." stands for any character
AnchoredMatch(pattern, n) ==
    /\ Len(n) = Len(pattern)
    /\ \A i \in 1..Len(pattern) : pattern[i] = "." \/ pattern[i] = n[i]

\* cli.ContainerList with All: true and the name filter
ContainerList(h, name) ==
    {n \in AllNames : h[n] # "absent" /\ AnchoredMatch(name, n)}

GetContainerIDFirstOfMany(h, name, listOk) ==
    LET containers == ContainerList(h, name)
    IN  IF ~listOk THEN [fatal |-> TRUE, id |-> <<>>, n |-> 0]
        ELSE IF Cardinality(containers) = 0
        THEN [fatal |-> FALSE, id |-> <<>>, n |-> 0]
        ELSE [fatal |-> FALSE,
              id |-> ContainerID(CHOOSE c \in containers : TRUE),
              n |-> Cardinality(containers)]

\* GetContainerID: the ID ("" is <<>>), or log.Fatal
GetContainerID(h, name, listOk) ==
    LET containers == ContainerList(h, name)
    IN  IF ~listOk THEN [fatal |-> TRUE, id |-> <<>>, n |-> 0]
        ELSE IF Cardinality(containers) = 0
        THEN [fatal |-> FALSE, id |-> <<>>, n |-> 0]
        ELSE IF Cardinality(containers) = 1
        THEN [fatal |-> FALSE,
              id |-> ContainerID(CHOOSE c \in containers : TRUE), n |-> 1]
        ELSE [fatal |-> TRUE, id |-> <<>>, n |-> Cardinality(containers)]

\* one entry of the log of runtime operations
Call(op, name, ok) == [op |-> op, name |-> name, ok |-> ok, n |-> 0, id |-> <<>>]

ListCall(name, listOk, r) ==
    [op |-> "list", name |-> name, ok |-> listOk, n |-> r.n, id |-> r.id]

IgnoreErr(ok) == "running"

\* "if err != nil { log.Fatal()... }": the process exits on an error
FatalOnErr(ok) == IF ok THEN "running" ELSE "fatal"

(***************************************************************************)
(* StartContainers and StopContainers as their statement sequences          *)
(***************************************************************************)
Step(op, c, unless) == [op |-> op, c |-> c, unless |-> unless]

StartSequenceServiceFirst ==
    << Step("Start", "Traefik", "none"),
       Step("TraefikConfiguration", "Traefik", "none"),
       Step("Start", "CruxPostgres", "none"),
       Step("Start", "KratosPostgres", "none"),
       Step("Start", "Kratos", "none"),
       Step("StartWaitUntilExit", "KratosMigrate", "none"),
       Step("StartWaitUntilExit", "CruxMigrate", "Crux"),
       Step("Start", "Crux", "Crux"),
       Step("Start", "CruxUI", "CruxUI"),
       Step("Start", "MailSlurper", "none") >>

StartSequenceUnguarded ==
    << Step("Start", "Traefik", "none"),
       Step("TraefikConfiguration", "Traefik", "none"),
       Step("Start", "CruxPostgres", "none"),
       Step("Start", "KratosPostgres", "none"),
       Step("StartWaitUntilExit", "KratosMigrate", "none"),
       Step("Start", "Kratos", "none"),
       Step("StartWaitUntilExit", "CruxMigrate", "none"),
       Step("Start", "Crux", "Crux"),
       Step("Start", "CruxUI", "CruxUI"),
       Step("Start", "MailSlurper", "none") >>

StartSequenceMailEarly ==
    << Step("Start", "Traefik", "none"),
       Step("TraefikConfiguration", "Traefik", "none"),
       Step("Start", "CruxPostgres", "none"),
       Step("Start", "KratosPostgres", "none"),
       Step("StartWaitUntilExit", "KratosMigrate", "none"),
       Step("Start", "Kratos", "none"),
       Step("StartWaitUntilExit", "CruxMigrate", "Crux"),
       Step("Start", "Crux", "Crux"),
       Step("Start", "MailSlurper", "none"),
       Step("Start", "CruxUI", "CruxUI") >>

StartSequence ==
    << Step("Start", "Traefik", "none"),
       Step("TraefikConfiguration", "Traefik", "none"),
       Step("Start", "CruxPostgres", "none"),
       Step("Start", "KratosPostgres", "none"),
       Step("StartWaitUntilExit", "KratosMigrate", "none"),
       Step("Start", "Kratos", "none"),
       Step("StartWaitUntilExit", "CruxMigrate", "Crux"),
       Step("Start", "Crux", "Crux"),
       Step("Start", "CruxUI", "CruxUI"),
       Step("Start", "MailSlurper", "none") >>

StopSequenceForgetsTraefik ==
    << Step("Cleanup", "MailSlurper", "none"),
       Step("Cleanup", "CruxUI", "CruxUI"),
       Step("Cleanup", "Crux", "Crux"),
       Step("Cleanup", "CruxMigrate", "Crux"),
       Step("Cleanup", "KratosMigrate", "none"),
       Step("Cleanup", "Kratos", "none"),
       Step("Cleanup", "CruxPostgres", "none"),
       Step("Cleanup", "KratosPostgres", "none") >>

StopSequence ==
    << Step("Cleanup", "MailSlurper", "none"),
       Step("Cleanup", "CruxUI", "CruxUI"),
       Step("Cleanup", "Crux", "Crux"),
       Step("Cleanup", "CruxMigrate", "Crux"),
       Step("Cleanup", "KratosMigrate", "none"),
       Step("Cleanup", "Kratos", "none"),
       Step("Cleanup", "CruxPostgres", "none"),
       Step("Cleanup", "KratosPostgres", "none"),
       Step("Cleanup", "Traefik", "none") >>

Sequence(cmd) == IF cmd = "up" THEN StartSequence ELSE StopSequence

Running(cmd) == status = "running" /\ command = cmd /\ pc <= Len(Sequence(cmd))

Current == Sequence(command)[pc]

LastCall == calls[Len(calls)]

\* GetContainerID returned an ID for the current name and CleanupContainer is next
CleanupPending ==
    /\ calls # <<>>
    /\ LastCall.op = "list"
    /\ LastCall.ok
    /\ LastCall.id # <<>>

NoRun == [command |-> "none",
          settings |-> [CruxDisabled |-> FALSE, CruxUIDisabled |-> FALSE],
          created |-> <<>>]

\* the names the run created, in the order of their create calls
RECURSIVE CreatedBy(_)
CreatedBy(cs) ==
    IF cs = <<>> THEN <<>>
    ELSE IF Head(cs).op = "create" /\ Head(cs).ok
    THEN <<Head(cs).name>> \o CreatedBy(Tail(cs))
    ELSE CreatedBy(Tail(cs))

\* the names the run looked up, in the order of its list calls
RECURSIVE VisitedBy(_)
VisitedBy(cs) ==
    IF cs = <<>> THEN <<>>
    ELSE IF Head(cs).op = "list"
    THEN <<Head(cs).name>> \o VisitedBy(Tail(cs))
    ELSE VisitedBy(Tail(cs))


(***************************************************************************)
(* The container builder and the runtime calls of one statement             *)
(***************************************************************************)
\* <builder>.Create().Start(): create registers the container (a name that is
\* taken is a conflict), Start runs it; the error of either is Start's error
CreateStart(h, name, createOk, startOk) ==
    IF ~createOk
    THEN [host |-> h, calls |-> <<Call("create", name, FALSE)>>, ok |-> FALSE]
    ELSE [host |-> [h EXCEPT ![name] = IF startOk THEN "running" ELSE "created"],
          calls |-> <<Call("create", name, TRUE), Call("start", name, startOk)>>, ok |-> startOk]

\* <builder>.Create().StartWaitUntilExit(): starts the job and blocks until the
\* runtime reports it exited; a failed exit is an error
CreateStartWaitUntilExit(h, name, createOk, startOk, exitOk) ==
    IF ~createOk
    THEN [host |-> h, calls |-> <<Call("create", name, FALSE)>>, ok |-> FALSE]
    ELSE IF ~startOk
    THEN [host |-> [h EXCEPT ![name] = "created"],
          calls |-> <<Call("create", name, TRUE), Call("start", name, FALSE)>>, ok |-> FALSE]
    ELSE [host |-> [h EXCEPT ![name] = IF exitOk THEN "exited" ELSE "failed"],
          calls |-> <<Call("create", name, TRUE), Call("start", name, TRUE),
                      Call("wait", name, exitOk)>>, ok |-> exitOk]

CleanupContainerRemovesAnyway(h, id, stopOk, removeOk) ==
    IF ~stopOk
    THEN [host |-> [h EXCEPT ![id] = "absent"],
          calls |-> <<Call("stop", id, FALSE), Call("remove", id, TRUE)>>,
          ok |-> TRUE]
    ELSE IF ~removeOk
    THEN [host |-> [h EXCEPT ![id] = IF h[id] = "running" THEN "exited" ELSE h[id]],
          calls |-> <<Call("stop", id, TRUE), Call("remove", id, FALSE)>>,
          ok |-> FALSE]
    ELSE [host |-> [h EXCEPT ![id] = "absent"],
          calls |-> <<Call("stop", id, TRUE), Call("remove", id, TRUE)>>,
          ok |-> TRUE]

CleanupContainerOfListed(h, id, stopOk, removeOk) ==
    LET listed == CHOOSE n \in ContainerList(h, id) : TRUE
    IN  [host |-> [h EXCEPT ![listed] = "absent"],
         calls |-> <<Call("stop", listed, TRUE), Call("remove", listed, TRUE)>>,
         ok |-> TRUE]

\* CleanupContainer: ContainerStop (10s), then ContainerRemove (forced)
CleanupContainer(h, id, stopOk, removeOk) ==
    IF ~stopOk
    THEN [host |-> h, calls |-> <<Call("stop", id, FALSE)>>, ok |-> FALSE]
    ELSE IF ~removeOk
    THEN [host |-> [h EXCEPT ![id] = IF h[id] = "running" THEN "exited" ELSE h[id]],
          calls |-> <<Call("stop", id, TRUE), Call("remove", id, FALSE)>>,
          ok |-> FALSE]
    ELSE [host |-> [h EXCEPT ![id] = "absent"],
          calls |-> <<Call("stop", id, TRUE), Call("remove", id, TRUE)>>,
          ok |-> TRUE]

(***************************************************************************)
(* Actions of the CLI                                                      *)
(***************************************************************************)
ProcessCommand ==
    /\ status \in {"idle", "done", "fatal"}
    /\ \E cmd \in {"up", "down", "invalid"}, st \in SettingsSet :
          /\ command' = cmd
          /\ settings' = st
          /\ status' = IF cmd = "invalid" THEN "fatal" ELSE "running"
    /\ pc' = 1
    /\ calls' = <<>>
    /\ prevRun' = IF status = "done"
                  THEN [command |-> command, settings |-> settings,
                        created |-> CreatedBy(calls)]
                  ELSE NoRun
    /\ UNCHANGED <<host, routing>>
    /\ UNCHANGED <<imageVars, mergeVars, pullVars>>

\* an "if !containers.Containers.X.Disabled" block whose flag is set
SkipDisabled ==
    /\ status = "running"
    /\ pc <= Len(Sequence(command))
    /\ Disabled(settings, Current.unless)
    /\ pc' = pc + 1
    /\ UNCHANGED <<settings, command, status, host, routing, calls, prevRun>>
    /\ UNCHANGED <<imageVars, mergeVars, pullVars>>

Return ==
    /\ status = "running"
    /\ pc > Len(Sequence(command))
    /\ status' = "done"
    /\ UNCHANGED <<settings, command, pc, host, routing, calls, prevRun>>
    /\ UNCHANGED <<imageVars, mergeVars, pullVars>>

UpStart ==
    /\ Running("up")
    /\ Current.op = "Start"
    /\ ~Disabled(settings, Current.unless)
    /\ \E createOk, startOk \in BOOLEAN :
          /\ createOk => host[ContainerName(Current.c)] = "absent"
          /\ startOk => createOk
          /\ LET r == CreateStart(host, ContainerName(Current.c), createOk, startOk)
             IN  /\ host' = r.host
                 /\ calls' = calls \o r.calls
                 /\ status' = FatalOnErr(r.ok)
                 /\ pc' = IF FatalOnErr(r.ok) = "fatal" THEN pc ELSE pc + 1
    /\ UNCHANGED <<settings, command, routing, prevRun>>
    /\ UNCHANGED <<imageVars, mergeVars, pullVars>>

UpTraefikConfiguration ==
    /\ Running("up")
    /\ Current.op = "TraefikConfiguration"
    /\ \E ok \in BOOLEAN :
          /\ calls' = Append(calls, Call("write", ContainerName(Current.c), ok))
          /\ routing' = (routing \/ ok)
          /\ status' = FatalOnErr(ok)
          /\ pc' = IF FatalOnErr(ok) = "fatal" THEN pc ELSE pc + 1
    /\ UNCHANGED <<settings, command, host, prevRun>>
    /\ UNCHANGED <<imageVars, mergeVars, pullVars>>

UpStartWaitUntilExit ==
    /\ Running("up")
    /\ Current.op = "StartWaitUntilExit"
    /\ ~Disabled(settings, Current.unless)
    /\ \E createOk, startOk, exitOk \in BOOLEAN :
          /\ createOk => host[ContainerName(Current.c)] = "absent"
          /\ startOk => createOk
          /\ exitOk => startOk
          /\ LET r == CreateStartWaitUntilExit(host, ContainerName(Current.c),
                                               createOk, startOk, exitOk)
             IN  /\ host' = r.host
                 /\ calls' = calls \o r.calls
                 /\ status' = FatalOnErr(r.ok)
                 /\ pc' = IF FatalOnErr(r.ok) = "fatal" THEN pc ELSE pc + 1
    /\ UNCHANGED <<settings, command, routing, prevRun>>
    /\ UNCHANGED <<imageVars, mergeVars, pullVars>>

DownGetContainerID ==
    /\ Running("down")
    /\ ~Disabled(settings, Current.unless)
    /\ ~CleanupPending
    /\ \E listOk \in BOOLEAN :
          LET r == GetContainerID(host, ContainerName(Current.c), listOk)
          IN  /\ calls' = Append(calls, ListCall(ContainerName(Current.c), listOk, r))
              /\ status' = FatalOnErr(~r.fatal)
              /\ pc' = IF ~r.fatal /\ r.id = <<>> THEN pc + 1 ELSE pc
    /\ UNCHANGED <<settings, command, host, routing, prevRun>>
    /\ UNCHANGED <<imageVars, mergeVars, pullVars>>

\* CleanupContainer is handed the container's name
DownCleanupContainer ==
    /\ Running("down")
    /\ CleanupPending
    /\ \E stopOk, removeOk \in BOOLEAN :
          /\ stopOk => host[ContainerName(Current.c)] # "absent"
          /\ removeOk => stopOk
          /\ LET r == CleanupContainer(host, ContainerName(Current.c), stopOk, removeOk)
             IN  /\ host' = r.host
                 /\ calls' = calls \o r.calls
                 /\ routing' = (routing /\ ~(r.ok /\ Current.c = "Traefik"))
                 /\ status' = FatalOnErr(r.ok)
                 /\ pc' = IF FatalOnErr(r.ok) = "fatal" THEN pc ELSE pc + 1
    /\ UNCHANGED <<settings, command, prevRun>>
    /\ UNCHANGED <<imageVars, mergeVars, pullVars>>

(***************************************************************************)
(* container-merge: mergeConfigsWithConcreteConfig                          *)
(* An optional field is a set: {} when undefined, {v} when it holds v.      *)
(***************************************************************************)
Undefined == {}

Def(v) == {v}

Val(o) == CHOOSE v \in o : TRUE

Entry(id, value) == [id |-> id, value |-> value]

Markers(d, s, i) == [deployment |-> d, service |-> s, ingress |-> i]

HealthCheck(port, probe) == [port |-> port, livenessProbe |-> probe]

\* a secret of a base layer carries no resolved material
Secret(id, key) ==
    [id |-> id, key |-> key, required |-> "false",
     encrypted |-> "undefined", value |-> "undefined", publicKey |-> "undefined"]

ConcreteSecret(id, key, material) ==
    [id |-> id, key |-> key, required |-> "false",
     encrypted |-> "true", value |-> material, publicKey |-> material]

\* the base configs: fullConfig and variations of it
BaseConfigs ==
    [name : {Def("img")},
     capabilities : {Def(<<"cap">>)},
     ports : {Def(<<Entry("port1", 1)>>),
              Def(<<Entry("port1", 1), Entry("port2", 2)>>)},
     labels : {Undefined,
               Def(Markers(Def(<<Entry("labels.deployment", 1)>>), Undefined, Undefined)),
               Def(Markers(Def(<<Entry("labels.deployment", 1)>>),
                           Def(<<Entry("labels.service", 1)>>),
                           Def(<<Entry("labels.ingress", 1)>>)))},
     annotations : {Def(Markers(Def(<<Entry("annotations.deployment", 1)>>),
                                Def(<<Entry("annotations.service", 1)>>),
                                Def(<<Entry("annotations.ingress", 1)>>)))},
     healthCheckConfig : {Def(HealthCheck(Def(1), Def("healthCheckConf")))},
     secrets : {Undefined,
                Def(<<Secret("secret1", "secret1")>>),
                Def(<<Secret("secret1", "secret1"), Secret("secret2", "secret2")>>)}]

\* the instance configs: {}, fullConcreteConfig, the partial instance of the
\* third test, and variations of them
InstanceConfigs ==
    [name : {Undefined, Def("instance.img")},
     capabilities : {Undefined, Def(<<>>)},
     ports : {Undefined,
              Def(<<Entry("port1", 10)>>),
              Def(<<Entry("instance.port1", 10)>>)},
     labels : {Undefined,
               Def(Markers(Def(<<Entry("instance.labels.deployment", 1)>>),
                           Undefined, Undefined)),
               Def(Markers(Undefined, Def(<<Entry("labels.service", 2)>>), Undefined)),
               Def(Markers(Def(<<Entry("instance.labels.deployment", 1)>>),
                           Def(<<Entry("instance.labels.service", 1)>>),
                           Def(<<Entry("instance.labels.ingress", 1)>>)))},
     annotations : {Undefined,
                    Def(Markers(Undefined,
                                Def(<<Entry("instance.annotations.service", 1)>>),
                                Undefined)),
                    Def(Markers(Def(<<Entry("instance.annotations.deployment", 1)>>),
                                Def(<<Entry("instance.annotations.service", 1)>>),
                                Def(<<Entry("instance.annotations.ingress", 1)>>)))},
     healthCheckConfig : {Undefined,
                          Def(HealthCheck(Undefined, Def("instance.healthCheckConf"))),
                          Def(HealthCheck(Def(10), Def("instance.healthCheckConf")))},
     secrets : {Undefined,
                Def(<<ConcreteSecret("secret1", "instance.secret1", "instance.secret1.publicKey")>>),
                Def(<<ConcreteSecret("secret3", "instance.secret3", "instance.secret3.publicKey")>>)}]

EmptyConfig ==
    [name |-> Undefined, capabilities |-> Undefined, ports |-> Undefined,
     labels |-> Undefined, annotations |-> Undefined,
     healthCheckConfig |-> Undefined, secrets |-> Undefined]

CoalesceWeakFirst(strong, weak) == IF weak # {} THEN weak ELSE strong

\* strong ?? weak: the last layer that defines the field wins
Coalesce(strong, weak) == IF strong # {} THEN strong ELSE weak

RECURSIVE ReplaceById(_, _)
ReplaceById(entries, replacements) ==
    IF entries = <<>> THEN <<>>
    ELSE LET same == SelectSeq(replacements, LAMBDA r : r.id = Head(entries).id)
         IN  (IF same = <<>> THEN <<Head(entries)>> ELSE <<Head(same)>>)
             \o ReplaceById(Tail(entries), replacements)

\* a merge keyed by identifier: the weak entries in their order, each replaced
\* by the strong entry of the same id, then the strong entries of other ids
MergeById(strong, weak) ==
    LET ids == {weak[i].id : i \in 1..Len(weak)}
    IN  ReplaceById(weak, strong) \o SelectSeq(strong, LAMBDA e : e.id \notin ids)

mergeCollectionById(strong, weak) ==
    IF strong = {} THEN weak
    ELSE IF weak = {} THEN strong
    ELSE Def(MergeById(Val(strong), Val(weak)))

\* a collection of entries with ids (ports, environment, ...)
mergeCollection(strong, weak) == Coalesce(strong, weak)

mergeMarkersWhole(strong, weak) == Coalesce(strong, weak)

\* labels and annotations: each partition on its own
mergeMarkers(strong, weak) ==
    IF strong = {} THEN weak
    ELSE IF weak = {} THEN strong
    ELSE Def(Markers(mergeCollection(Val(strong).deployment, Val(weak).deployment),
                     mergeCollection(Val(strong).service, Val(weak).service),
                     mergeCollection(Val(strong).ingress, Val(weak).ingress)))

\* a nested object without ids: field by field
mergeHealthCheckConfig(strong, weak) ==
    IF strong = {} THEN weak
    ELSE IF weak = {} THEN strong
    ELSE Def(HealthCheck(Coalesce(Val(strong).port, Val(weak).port),
                         Coalesce(Val(strong).livenessProbe, Val(weak).livenessProbe)))

Unresolved(secret) ==
    [secret EXCEPT !.encrypted = "false", !.value = "", !.publicKey = "null"]

SecretsOf(o) == IF o = {} THEN <<>> ELSE Val(o)

mergeSecretsKeepsRaw(strong, weak) ==
    LET overridden == {SecretsOf(strong)[i].id : i \in 1..Len(SecretsOf(strong))}
    IN  Def(SelectSeq(SecretsOf(weak), LAMBDA it : it.id \notin overridden)
            \o SecretsOf(strong))

mergeSecretsDropsMissing(strong, weak) == Def(SecretsOf(strong))

\* secrets: the strong secret of an id wins as a whole; a weak secret that no
\* strong secret overrides is kept in its unresolved form
mergeSecrets(strong, weak) ==
    LET overridden == {SecretsOf(strong)[i].id : i \in 1..Len(SecretsOf(strong))}
        missing == SelectSeq(SecretsOf(weak), LAMBDA it : it.id \notin overridden)
    IN  Def([i \in 1..Len(missing) |-> Unresolved(missing[i])] \o SecretsOf(strong))

mergeConfigs(strong, weak) ==
    [name |-> Coalesce(strong.name, weak.name),
     capabilities |-> Coalesce(strong.capabilities, weak.capabilities),
     ports |-> mergeCollection(strong.ports, weak.ports),
     labels |-> mergeMarkers(strong.labels, weak.labels),
     annotations |-> mergeMarkers(strong.annotations, weak.annotations),
     healthCheckConfig |->
         mergeHealthCheckConfig(strong.healthCheckConfig, weak.healthCheckConfig),
     secrets |-> Coalesce(strong.secrets, weak.secrets)]

\* the layers merged left to right: a later layer overrides an earlier one
RECURSIVE mergeLayers(_)
mergeLayers(configs) ==
    IF configs = <<>> THEN EmptyConfig
    ELSE mergeConfigs(configs[Len(configs)],
                      mergeLayers(SubSeq(configs, 1, Len(configs) - 1)))

mergeConfigsWithConcreteConfig(configs, concrete) ==
    LET config == mergeLayers(configs)
    IN  [mergeConfigs(concrete, config)
           EXCEPT !.secrets = mergeSecrets(concrete.secrets, config.secrets)]

Merge ==
    /\ mpc = "init"
    /\ merged' = mergeConfigsWithConcreteConfig(layers, instance)
    /\ mpc' = "merged"
    /\ UNCHANGED <<layers, instance>>
    /\ UNCHANGED <<imageVars, cliVars, pullVars>>

MergeIdle ==
    /\ layers = <<>>
    /\ instance = EmptyConfig
    /\ merged = EmptyConfig
    /\ mpc = "init"

(***************************************************************************)
(* image.Pull: the progress stream of an image pull                        *)
(* Time is counted in ticks of half a second.                              *)
(***************************************************************************)
MaxTime == 7

MaxMessages == 4

\* time.Second
Second == 2

\* var lastLog time.Time: the zero time
ZeroTime == {}

\* time.Since(t); the zero time lies further back than any duration
Since(t) == IF t = ZeroTime THEN MaxTime + Second + 1 ELSE now - Val(t)

ShouldLogAtSecond(l) == logger /\ Since(l) >= Second

\* logger != nil && time.Since(lastLog) > time.Second
ShouldLog(l) == logger /\ Since(l) > Second

Line(kind) == [kind |-> kind, at |-> now]

\* logger.WriteString: the line is written, or the write fails and Pull goes on
WriteString(kind, ok) == IF ok THEN Append(log, Line(kind)) ELSE log

\* the client, the "Pulling image" line and the ImagePull request
PullStart ==
    /\ ppc = "start"
    /\ \E outcome \in {"client", "pull", "nil"}, ok \in BOOLEAN :
          IF outcome = "client"
          THEN /\ pullErr' = "client"
               /\ ppc' = "returned"
               /\ log' = log
          ELSE /\ log' = (IF logger THEN WriteString("pulling", ok) ELSE log)
               /\ pullErr' = outcome
               /\ ppc' = (IF outcome = "nil" THEN "loop" ELSE "returned")
    /\ UNCHANGED <<logger, now, lastLog, decoded, decodeResult>>
    /\ UNCHANGED <<imageVars, cliVars, mergeVars>>

\* time passes while Pull waits for the stream or writes
Tick ==
    /\ ppc \in {"loop", "write", "stamp"}
    /\ now < MaxTime
    /\ now' = now + 1
    /\ UNCHANGED <<logger, lastLog, log, decoded, decodeResult, pullErr, ppc>>
    /\ UNCHANGED <<imageVars, cliVars, mergeVars>>

\* d.Decode: a message with or without progress detail, the end of the
\* stream, or a message that does not decode
PullDecode ==
    /\ ppc = "loop"
    /\ \E result \in {"percent", "status", "EOF", "error"} :
          /\ result \in {"percent", "status"} => decoded < MaxMessages
          /\ decodeResult' = result
          /\ IF result = "EOF"
             THEN pullErr' = "nil" /\ ppc' = "returned" /\ decoded' = decoded
             ELSE IF result = "error"
             THEN pullErr' = "decode" /\ ppc' = "returned" /\ decoded' = decoded
             ELSE /\ pullErr' = pullErr
                  /\ decoded' = decoded + 1
                  /\ ppc' = (IF ShouldLog(lastLog) THEN "write" ELSE "loop")
    /\ UNCHANGED <<logger, now, lastLog, log>>
    /\ UNCHANGED <<imageVars, cliVars, mergeVars>>

\* logger.WriteString of the progress line
PullWrite ==
    /\ ppc = "write"
    /\ \E ok \in BOOLEAN : log' = WriteString(decodeResult, ok)
    /\ ppc' = "stamp"
    /\ UNCHANGED <<logger, now, lastLog, decoded, decodeResult, pullErr>>
    /\ UNCHANGED <<imageVars, cliVars, mergeVars>>

\* lastLog = time.Now()
PullStamp ==
    /\ ppc = "stamp"
    /\ lastLog' = {now}
    /\ ppc' = "loop"
    /\ UNCHANGED <<logger, now, log, decoded, decodeResult, pullErr>>
    /\ UNCHANGED <<imageVars, cliVars, mergeVars>>

PullIdle ==
    /\ logger = FALSE
    /\ now = 0
    /\ lastLog = ZeroTime
    /\ log = <<>>
    /\ decoded = 0
    /\ decodeResult = "none"
    /\ pullErr = "nil"
    /\ ppc = "start"

(***************************************************************************)
(* Specifications                                                          *)
(***************************************************************************)
ImageIdle ==
    /\ imageName = <<>>
    /\ image = NoImage
    /\ parseErr = "unparsed"
    /\ before = NoImage
    /\ out = <<>>
    /\ ipc = "init"

CliIdle ==
    /\ settings = NoRun.settings
    /\ command = "none"
    /\ status = "idle"
    /\ pc = 1
    /\ routing = FALSE
    /\ calls = <<>>
    /\ prevRun = NoRun

\* no managed container exists yet; other containers of the host may
Init ==
    /\ ImageIdle
    /\ CliIdle
    /\ MergeIdle
    /\ PullIdle
    /\ host \in {h \in [AllNames -> {"absent", "running"}] :
                    \A n \in ManagedNames : h[n] = "absent"}

Next ==
    \/ ProcessCommand
    \/ SkipDisabled
    \/ Return
    \/ UpStart
    \/ UpTraefikConfiguration
    \/ UpStartWaitUntilExit
    \/ DownGetContainerID
    \/ DownCleanupContainer

Spec == Init /\ [][Next]_vars

\* a string to parse, or a URI built by the caller
ImageInit ==
    /\ CliIdle
    /\ MergeIdle
    /\ PullIdle
    /\ host = [n \in AllNames |-> "absent"]
    /\ parseErr = "unparsed"
    /\ before = NoImage
    /\ out = <<>>
    /\ ipc = "init"
    /\ \/ imageName \in Strings /\ image = NoImage
       \/ /\ imageName = <<>>
          /\ image \in [Host : FieldValues, Name : FieldValues, Tag : FieldValues]

ImageNext ==
    /\ \/ Parse
       \/ FormatString
       \/ FormatStringNoTag
    /\ UNCHANGED <<cliVars, mergeVars, pullVars>>

ImageSpec == ImageInit /\ [][ImageNext]_vars

\* one base layer and an instance
MergeInit ==
    /\ ImageIdle
    /\ CliIdle
    /\ host = [n \in AllNames |-> "absent"]
    /\ PullIdle
    /\ layers \in {<<base>> : base \in BaseConfigs}
    /\ instance \in InstanceConfigs
    /\ merged = EmptyConfig
    /\ mpc = "init"

MergeNext == Merge

MergeSpec == MergeInit /\ [][MergeNext]_vars

\* one call of Pull, with a logger or with nil
PullInit ==
    /\ ImageIdle
    /\ CliIdle
    /\ host = [n \in AllNames |-> "absent"]
    /\ MergeIdle
    /\ logger \in BOOLEAN
    /\ now = 0
    /\ lastLog = ZeroTime
    /\ log = <<>>
    /\ decoded = 0
    /\ decodeResult = "none"
    /\ pullErr = "nil"
    /\ ppc = "start"

PullNext ==
    \/ PullStart
    \/ Tick
    \/ PullDecode
    \/ PullWrite
    \/ PullStamp

PullSpec == PullInit /\ [][PullNext]_vars


(***************************************************************************)
(* Properties of the stack lifecycle (specification Spec)                   *)
(***************************************************************************)
MigrationOf(svc) == IF svc = "Kratos" THEN "KratosMigrate" ELSE "CruxMigrate"

\* the settings flag that disables a component, as the settings document it
OptionalFlag(c) ==
    IF c \in {"Crux", "CruxMigrate"} THEN "Crux"
    ELSE IF c = "CruxUI" THEN "CruxUI"
    ELSE "none"

EnabledNames(st) ==
    {ContainerName(c) : c \in {d \in Components : ~Disabled(st, OptionalFlag(d))}}

CallIndexes == 1..Len(calls)

\* C1: in every "up", create and start of Kratos and of Crux are invoked only
\* after the migration job of that service was started and was reported as
\* exited by the runtime.
C1_MigrationBeforeService ==
    command = "up" =>
      \A svc \in {"Kratos", "Crux"} : \A i \in CallIndexes :
        (calls[i].op \in {"create", "start"} /\ calls[i].name = ContainerName(svc))
        => \E j, k \in 1..(i - 1) :
              /\ j < k
              /\ calls[j] = Call("start", ContainerName(MigrationOf(svc)), TRUE)
              /\ calls[k] = Call("wait", ContainerName(MigrationOf(svc)), TRUE)

C1_Witness ==
    /\ command = "up"
    /\ \E i, j \in CallIndexes :
          /\ calls[i] = Call("start", ContainerName("Kratos"), TRUE)
          /\ calls[j] = Call("start", ContainerName("Crux"), TRUE)

C3_DownReversesUp ==
    (command = "down" /\ prevRun.command = "up" /\ prevRun.settings = settings) =>
      LET created == prevRun.created
          visited == VisitedBy(calls)
      IN  \A i, j \in 1..Len(created) : \A p, q \in 1..Len(visited) :
            (i < j /\ visited[p] = created[i] /\ visited[q] = created[j]) => q < p

\* C4 as stated: after a "down" that completed, every managed name resolves to
\* absent, and a "down" run right after it fails at no step and stops and
\* removes nothing.
C4_TeardownIdempotent ==
    /\ (command = "down" /\ status = "done")
       => \A n \in ManagedNames : ContainerList(host, n) = {}
    /\ (command = "down" /\ prevRun.command = "down" /\ prevRun.settings = settings)
       => /\ \A i \in CallIndexes : calls[i].op = "list" /\ (calls[i].ok => calls[i].n = 0)
          /\ status = "fatal" => ~LastCall.ok

\* C4 amended: after a "down" that completed, every managed name that the run's
\* settings enable resolves to absent, and a "down" run right after it with the
\* same settings only looks names up, finds each absent, stops and removes
\* nothing, and fails only if the runtime's list call itself fails.
C4_TeardownIdempotentEnabled ==
    /\ (command = "down" /\ status = "done")
       => \A n \in EnabledNames(settings) : ContainerList(host, n) = {}
    /\ (command = "down" /\ prevRun.command = "down" /\ prevRun.settings = settings)
       => /\ \A i \in CallIndexes : calls[i].op = "list" /\ (calls[i].ok => calls[i].n = 0)
          /\ status = "fatal" => ~LastCall.ok

C4_Witness ==
    /\ command = "down"
    /\ status = "done"
    /\ prevRun.command = "down"
    /\ prevRun.settings = settings
    /\ settings.CruxDisabled
    /\ host[ContainerName("Crux")] = "running"
    /\ Len(calls) = 6

\* C5: no runtime operation of a run names a component that the run's settings
\* disable; an "up" that completes created exactly the enabled names and a
\* "down" that completes looked up exactly the enabled names.
C5_DisabledSkipped ==
    /\ \A i \in CallIndexes : calls[i].name \in EnabledNames(settings)
    /\ (status = "done" /\ command = "up")
       => {calls[i].name : i \in {k \in CallIndexes : calls[k].op = "create"}}
            = EnabledNames(settings)
    /\ (status = "done" /\ command = "down")
       => {calls[i].name : i \in {k \in CallIndexes : calls[k].op = "list"}}
            = EnabledNames(settings)

C5_Witness ==
    /\ command = "down"
    /\ status = "done"
    /\ settings.CruxDisabled
    /\ settings.CruxUIDisabled
    /\ prevRun.command = "up"
    /\ prevRun.settings = settings

\* C6: a lookup by name has three outcomes: no container matches and the ID is
\* empty, without an error; one container matches and its ID is returned; more
\* than one matches and the run is fatal.
C6_LookupOutcomes ==
    (calls # <<>> /\ LastCall.op = "list" /\ LastCall.ok) =>
      LET matching == {n \in AllNames :
                          host[n] # "absent" /\ AnchoredMatch(LastCall.name, n)}
      IN  /\ Cardinality(matching) = 0 => (LastCall.id = <<>> /\ status # "fatal")
          /\ Cardinality(matching) = 1 =>
                /\ \E n \in matching : LastCall.id = ContainerID(n)
                /\ status # "fatal"
          /\ Cardinality(matching) > 1 => status = "fatal"

C6_Witness ==
    /\ command = "down"
    /\ calls # <<>>
    /\ LastCall.op = "list"
    /\ LastCall.ok
    /\ LastCall.n = 2
    /\ status = "fatal"

\* C7: in "up", a failed operation is the last operation of the run and the run
\* is fatal; the failing step leaves every existing container as it is, and
\* after it the run does nothing more: only a new invocation follows.
C7_FailureIsFatal ==
    /\ [](command = "up" =>
            \A i \in CallIndexes :
               ~calls[i].ok => (i = Len(calls) /\ status = "fatal"))
    /\ [][(command = "up" /\ status = "running" /\ status' = "fatal")
            => \A n \in AllNames : host[n] # "absent" => host'[n] = host[n]]_vars
    /\ [][(command = "up" /\ status = "fatal")
            => (host' = host /\ routing' = routing /\ calls' = <<>>)]_vars

C7_Witness ==
    /\ command = "up"
    /\ status = "fatal"
    /\ calls # <<>>
    /\ LastCall = Call("start", ContainerName("Kratos"), FALSE)
    /\ host[ContainerName("Traefik")] = "running"
    /\ host[ContainerName("KratosMigrate")] = "exited"
    /\ host[ContainerName("Kratos")] = "created"

(***************************************************************************)
(* Properties of image references (specification ImageSpec)                 *)
(***************************************************************************)
\* "repo/name:tag": one colon, and before it a repository path, a slash and a
\* name, none of them empty; a tag after it
ValidImageString(s) ==
    \E k, c \in 1..Len(s) :
       /\ s[k] = "/"
       /\ s[c] = ":"
       /\ Count(s, ":") = 1
       /\ 1 < k
       /\ k + 1 < c
       /\ c < Len(s)
       /\ \A i \in (k + 1)..(c - 1) : s[i] # "/"

BeforeColon(s) == SubSeq(s, 1, (CHOOSE c \in 1..Len(s) : s[c] = ":") - 1)

\* C8: parsing fails with the empty-reference error for the empty string, with
\* the missing-tag error for a non-empty string without a colon, with the
\* ambiguous-reference error for a string with more than one colon, and with
\* none of the three for a string with exactly one colon.
C8_ParseErrors ==
    parseErr # "unparsed" =>
      /\ imageName = <<>> => parseErr = "EmptyError"
      /\ (imageName # <<>> /\ Count(imageName, ":") = 0) => parseErr = "InvalidURIError"
      /\ Count(imageName, ":") > 1 => parseErr = "MultiColonRegistryURIError"
      /\ Count(imageName, ":") = 1 => parseErr = "none"

C8_Witness ==
    /\ parseErr = "InvalidURIError"
    /\ imageName = <<"a", "/", "b">>

\* C9: for a valid "repo/name:tag" string, parse then String gives the string
\* back, and parse then StringNoTag gives the string without ":tag".
C9_RoundTrip ==
    (parseErr # "unparsed" /\ ValidImageString(imageName)) =>
      /\ parseErr = "none"
      /\ ipc = "String" => out = imageName
      /\ ipc = "StringNoTag" => out = BeforeColon(imageName)

C9_Witness ==
    /\ ipc = "StringNoTag"
    /\ imageName = <<"a", "/", "b", "/", "a", ":", "b">>
    /\ out = <<"a", "/", "b", "/", "a">>

\* C10: String and StringNoTag put "docker.io/library" for an empty host, String
\* puts "latest" for an empty tag, and a host or tag that is not empty is put
\* as it is.
C10_DefaultsApplied ==
    ipc \in {"String", "StringNoTag"} =>
      LET h == IF before.Host = <<>> THEN DefaultHost ELSE before.Host
          t == IF before.Tag = <<>> THEN DefaultTag ELSE before.Tag
      IN  /\ ipc = "String" => out = h \o <<"/">> \o before.Name \o <<":">> \o t
          /\ ipc = "StringNoTag" => out = h \o <<"/">> \o before.Name

C10_Witness ==
    /\ ipc = "String"
    /\ before.Host = <<>>
    /\ before.Tag = <<>>
    /\ before.Name = <<"a">>
    /\ out = DefaultHost \o <<"/", "a", ":">> \o DefaultTag


\* C11: String and StringNoTag leave the stored host, name and tag of the
\* reference as they were before the call.
C11_DefaultingIsViewOnly ==
    ipc \in {"String", "StringNoTag"} => image = before

\* C12: a reference that URIFromString returns without an error has a name
\* that is not empty.
C12_ParsedNameNotEmpty ==
    parseErr = "none" => image.Name # <<>>

(***************************************************************************)
(* Phase order of "up" and the steps of "down" (specification Spec)         *)
(***************************************************************************)
Datastores == {"CruxPostgres", "KratosPostgres"}
MigrationJobs == {"KratosMigrate", "CruxMigrate"}
ApplicationServices == {"Kratos", "Crux", "CruxUI"}

EnabledIn(cs, st) == {c \in cs : ~Disabled(st, OptionalFlag(c))}

\* the operation op on component c succeeded before the i-th call
DoneBefore(op, c, i) ==
    \E j \in 1..(i - 1) : calls[j] = Call(op, ContainerName(c), TRUE)

CreatedAt(cs, i) ==
    /\ calls[i].op = "create"
    /\ \E c \in cs : calls[i].name = ContainerName(c)

IngressFirst ==
    \A i \in CallIndexes :
      CreatedAt(Components \ {"Traefik"}, i) =>
        \E j, k, l \in 1..(i - 1) :
           /\ j < k /\ k < l
           /\ calls[j] = Call("create", ContainerName("Traefik"), TRUE)
           /\ calls[k] = Call("start", ContainerName("Traefik"), TRUE)
           /\ calls[l] = Call("write", ContainerName("Traefik"), TRUE)

DatastoresBeforeMigrations ==
    \A i \in CallIndexes :
      CreatedAt(MigrationJobs, i) => \A d \in Datastores : DoneBefore("start", d, i)

MailLast ==
    \A i \in CallIndexes :
      CreatedAt({"MailSlurper"}, i) =>
        \A a \in EnabledIn(ApplicationServices, settings) : DoneBefore("start", a, i)

\* C18 as stated: in "up", the ingress is created, started and configured before
\* any other container is created; both datastores are started before a
\* migration job is created; every enabled migration job has exited before any
\* application service is created; the mail service is created after every
\* enabled application service has been started.
C18_PhaseOrder ==
    command = "up" =>
      /\ IngressFirst
      /\ DatastoresBeforeMigrations
      /\ \A i \in CallIndexes :
           CreatedAt(ApplicationServices, i) =>
             \A m \in EnabledIn(MigrationJobs, settings) : DoneBefore("wait", m, i)
      /\ MailLast

\* C18 amended: as above, but a migration job has exited before its own service
\* is created (Kratos is created before the Crux migration job runs), and every
\* enabled migration job has exited before CruxUI is created.
C18_PhaseOrderPerService ==
    command = "up" =>
      /\ IngressFirst
      /\ DatastoresBeforeMigrations
      /\ \A i \in CallIndexes :
           /\ CreatedAt({"Kratos"}, i) => DoneBefore("wait", "KratosMigrate", i)
           /\ CreatedAt({"Crux"}, i) => DoneBefore("wait", "CruxMigrate", i)
           /\ CreatedAt({"CruxUI"}, i) =>
                \A m \in EnabledIn(MigrationJobs, settings) : DoneBefore("wait", m, i)
      /\ MailLast

C18_Witness ==
    /\ command = "up"
    /\ status = "done"
    /\ ~settings.CruxDisabled
    /\ ~settings.CruxUIDisabled
    /\ routing
    /\ \A c \in Components :
         host[ContainerName(c)] = IF c \in MigrationJobs THEN "exited" ELSE "running"

\* C19: in "down", a name that resolves to absent is neither stopped nor
\* removed and the run goes on to another name; for a name that resolves to an
\* ID, stop comes first and remove follows only a stop that succeeded; a failed
\* stop is the last operation of the run, which is fatal.
C19_StopThenRemove ==
    command = "down" =>
      \A i \in CallIndexes :
        /\ (calls[i].op = "list" /\ calls[i].ok /\ calls[i].id = <<>> /\ status # "fatal")
           => /\ \A j \in CallIndexes :
                   calls[j].name = calls[i].name => calls[j].op = "list"
              /\ i < Len(calls) =>
                   (calls[i + 1].op = "list" /\ calls[i + 1].name # calls[i].name)
        /\ (calls[i].op = "list" /\ calls[i].id # <<>> /\ i < Len(calls))
           => (calls[i + 1].op = "stop" /\ calls[i + 1].name = calls[i].name)
        /\ calls[i].op = "stop"
           => /\ i > 1 /\ calls[i - 1].op = "list" /\ calls[i - 1].id # <<>>
              /\ calls[i - 1].name = calls[i].name
              /\ calls[i].ok =>
                   (i < Len(calls) /\ calls[i + 1].op = "remove"
                    /\ calls[i + 1].name = calls[i].name)
              /\ ~calls[i].ok => (i = Len(calls) /\ status = "fatal")
        /\ calls[i].op = "remove"
           => (i > 1 /\ calls[i - 1] = Call("stop", calls[i].name, TRUE))

C19_Witness ==
    /\ command = "down"
    /\ status = "fatal"
    /\ Len(calls) >= 5
    /\ LastCall = Call("stop", ContainerName("Kratos"), FALSE)
    /\ host[ContainerName("Kratos")] = "running"
    /\ host[ContainerName("Traefik")] = "running"
    /\ \E i \in CallIndexes : calls[i].op = "list" /\ calls[i].ok /\ calls[i].id = <<>>
    /\ \E i \in CallIndexes : calls[i].op = "remove" /\ calls[i].ok

(***************************************************************************)
(* Claims about mergeConfigsWithConcreteConfig                             *)
(***************************************************************************)
Base == layers[1]

NonSecretFields ==
    {"name", "capabilities", "ports", "labels", "annotations", "healthCheckConfig"}

Partitions == {"deployment", "service", "ingress"}

Partition(markers, kind) == IF markers = {} THEN Undefined ELSE Val(markers)[kind]

AllPartitionsDefined(markers) ==
    markers # {} /\ \A kind \in Partitions : Val(markers)[kind] # {}

FullyDefined(config) ==
    /\ \A f \in NonSecretFields \cup {"secrets"} : config[f] # {}
    /\ AllPartitionsDefined(config.labels)
    /\ AllPartitionsDefined(config.annotations)
    /\ Val(config.healthCheckConfig).port # {}
    /\ Val(config.healthCheckConfig).livenessProbe # {}

Ids(entries) == {entries[i].id : i \in 1..Len(entries)}

IsUnresolvedFormOf(secret, declared) ==
    /\ secret.id = declared.id
    /\ secret.key = declared.key
    /\ secret.required = declared.required
    /\ secret.encrypted = "false"
    /\ secret.value = ""
    /\ secret.publicKey = "null"

\* the secrets of the result are base's secrets, one for one, unresolved
SecretsDowngraded ==
    /\ Len(SecretsOf(merged.secrets)) = Len(SecretsOf(Base.secrets))
    /\ \A i \in 1..Len(SecretsOf(Base.secrets)) :
          IsUnresolvedFormOf(SecretsOf(merged.secrets)[i], SecretsOf(Base.secrets)[i])

\* C13 (as stated): merging a base with an instance that defines every field
\* gives the instance exactly.
C13_OverrideLaw ==
    (mpc = "merged" /\ FullyDefined(instance)) => merged = instance

\* C13 (amended): merging a base with an instance that defines every field
\* gives the instance in every field other than secrets, collections keyed by
\* identifier included; the secrets of the result are the instance's secrets
\* preceded by the unresolved form of each base secret whose identifier the
\* instance does not carry, so the result is the instance exactly when the
\* instance carries every base secret identifier.
C13_OverrideLawExceptSecrets ==
    (mpc = "merged" /\ FullyDefined(instance)) =>
        LET kept == SelectSeq(SecretsOf(Base.secrets),
                              LAMBDA it : it.id \notin Ids(SecretsOf(instance.secrets)))
            result == SecretsOf(merged.secrets)
        IN  /\ \A f \in NonSecretFields : merged[f] = instance[f]
            /\ merged.secrets # {}
            /\ Len(result) = Len(kept) + Len(SecretsOf(instance.secrets))
            /\ \A i \in 1..Len(kept) : IsUnresolvedFormOf(result[i], kept[i])
            /\ SubSeq(result, Len(kept) + 1, Len(result)) = SecretsOf(instance.secrets)
            /\ (kept = <<>> => merged = instance)

C13_Witness ==
    /\ mpc = "merged"
    /\ FullyDefined(instance)
    /\ Ids(Val(Base.ports)) \ Ids(Val(instance.ports)) # {}
    /\ Ids(SecretsOf(Base.secrets)) \ Ids(SecretsOf(instance.secrets)) # {}
    /\ Ids(SecretsOf(Base.secrets)) \cap Ids(SecretsOf(instance.secrets)) # {}

\* C14: merging a base with the empty instance gives base in every field
\* except secrets, and each base secret appears with its id, key and required
\* and with encrypted = false, value = "" and publicKey = null.
C14_IdentityLaw ==
    (mpc = "merged" /\ instance = EmptyConfig) =>
        /\ \A f \in NonSecretFields : merged[f] = Base[f]
        /\ SecretsDowngraded

C14_Witness ==
    /\ mpc = "merged"
    /\ instance = EmptyConfig
    /\ Len(SecretsOf(Base.secrets)) = 2
    /\ Base.labels # {}

OnlyPartition(markers, kind) ==
    /\ markers # {}
    /\ \A k \in Partitions : (Val(markers)[k] # {}) <=> (k = kind)

\* the instance of the third test: ports, labels.deployment and
\* annotations.service and nothing else
PartialInstance ==
    /\ instance.ports # {}
    /\ OnlyPartition(instance.labels, "deployment")
    /\ OnlyPartition(instance.annotations, "service")
    /\ \A f \in {"name", "capabilities", "healthCheckConfig", "secrets"} : instance[f] = {}

\* C15: when the instance defines only ports, labels.deployment and
\* annotations.service, the result takes these three from the instance, has
\* base's secrets in unresolved form, and equals base in every other field and
\* in the label and annotation partitions the instance lacks.
C15_PartialInstanceLaw ==
    (mpc = "merged" /\ PartialInstance) =>
        /\ merged.ports = instance.ports
        /\ Partition(merged.labels, "deployment") = Partition(instance.labels, "deployment")
        /\ Partition(merged.annotations, "service") = Partition(instance.annotations, "service")
        /\ \A k \in {"service", "ingress"} :
              Partition(merged.labels, k) = Partition(Base.labels, k)
        /\ \A k \in {"deployment", "ingress"} :
              Partition(merged.annotations, k) = Partition(Base.annotations, k)
        /\ \A f \in {"name", "capabilities", "healthCheckConfig"} : merged[f] = Base[f]
        /\ SecretsDowngraded

C15_Witness ==
    /\ mpc = "merged"
    /\ PartialInstance
    /\ AllPartitionsDefined(Base.labels)
    /\ AllPartitionsDefined(Base.annotations)
    /\ Base.secrets # {}
    /\ merged.ports # Base.ports

\* C16 (as stated): a collection keyed by identifier merges as a set keyed by
\* identifier: a base entry is replaced only by an instance entry of the same
\* identifier, the other base entries stay in base order, and the instance
\* entries of other identifiers are appended.
C16_KeyedSetMerge ==
    mpc = "merged" => merged.ports = mergeCollectionById(instance.ports, Base.ports)

\* C16 (amended): a collection keyed by identifier is taken as a whole from
\* the last layer that defines it: the result holds the instance's entries
\* when the instance defines the collection, whatever identifiers base holds,
\* and base's entries otherwise; the same holds for each label and annotation
\* partition.
C16_CollectionReplacedWhole ==
    mpc = "merged" =>
        /\ merged.ports = (IF instance.ports # {} THEN instance.ports ELSE Base.ports)
        /\ \A k \in Partitions :
              /\ Partition(merged.labels, k) =
                    (IF Partition(instance.labels, k) # {}
                     THEN Partition(instance.labels, k)
                     ELSE Partition(Base.labels, k))
              /\ Partition(merged.annotations, k) =
                    (IF Partition(instance.annotations, k) # {}
                     THEN Partition(instance.annotations, k)
                     ELSE Partition(Base.annotations, k))

C16_Witness ==
    /\ mpc = "merged"
    /\ instance.ports # {}
    /\ Ids(Val(Base.ports)) \ Ids(Val(instance.ports)) # {}
    /\ Ids(Val(Base.ports)) \cap Ids(Val(instance.ports)) # {}
    /\ Ids(Val(instance.ports)) \cap Ids(Val(merged.ports)) # {}

\* C17: for every secret identifier of base the result holds exactly one
\* secret of that identifier, and when the instance holds a secret of that
\* identifier the result's secret is the instance's secret in every field.
C17_SecretMerge ==
    mpc = "merged" =>
        \A id \in Ids(SecretsOf(Base.secrets)) :
            LET found == SelectSeq(SecretsOf(merged.secrets), LAMBDA it : it.id = id)
                given == SelectSeq(SecretsOf(instance.secrets), LAMBDA it : it.id = id)
            IN  /\ Len(found) = 1
                /\ given # <<>> => found[1] = given[1]

C17_Witness ==
    /\ mpc = "merged"
    /\ Len(SecretsOf(Base.secrets)) = 2
    /\ \E i \in 1..Len(SecretsOf(Base.secrets)) :
          /\ SecretsOf(Base.secrets)[i].id \in Ids(SecretsOf(instance.secrets))
          /\ SecretsOf(Base.secrets)[i].key # SecretsOf(instance.secrets)[1].key
    /\ Ids(SecretsOf(Base.secrets)) \ Ids(SecretsOf(instance.secrets)) # {}

(***************************************************************************)
(* Claims about image.Pull                                                 *)
(***************************************************************************)
ProgressLines == SelectSeq(log, LAMBDA l : l.kind # "pulling")

\* C20: while Pull consumes the progress stream, more than one second
\* separates any two consecutive progress lines that one call writes, however
\* many messages arrive in between; and Pull has returned as soon as the
\* stream has ended (with no error) or a message has failed to decode (with
\* that error), and returns from the stream for no other reason.
C20_Throttled ==
    /\ \A i \in 1..(Len(ProgressLines) - 1) :
          ProgressLines[i + 1].at - ProgressLines[i].at > Second
    /\ Len(ProgressLines) <= decoded
    /\ decodeResult = "EOF" => (ppc = "returned" /\ pullErr = "nil")
    /\ decodeResult = "error" => (ppc = "returned" /\ pullErr = "decode")
    /\ ppc = "returned" =>
          \/ decodeResult \in {"EOF", "error"}
          \/ decodeResult = "none" /\ pullErr \in {"client", "pull"}

C20_Witness ==
    /\ ppc = "returned"
    /\ decodeResult = "EOF"
    /\ Len(ProgressLines) = 2
    /\ decoded = MaxMessages
    /\ ProgressLines[2].at - ProgressLines[1].at = Second + 1

(***************************************************************************)
(* Frame of 'up' and 'down'                                                *)
(***************************************************************************)
ChangingOps == {"create", "start", "wait", "stop", "remove", "write"}

OnlyManagedAddressed ==
    \A i \in CallIndexes :
        calls[i].op \in ChangingOps => calls[i].name \in ManagedNames

ForeignUnchanged == \A n \in AllNames \ ManagedNames : host'[n] = host[n]

\* C21: 'up' and 'down' create, start, stop and remove only containers whose
\* name is one of the managed names; every other container of the host, one
\* whose name contains a managed name or is matched by a managed name's
\* pattern ^name$ included, is in the same state after every step of every
\* sequence of 'up' and 'down' runs.
C21_FrameProperty == [](OnlyManagedAddressed) /\ [][ForeignUnchanged]_vars

\* a 'down' whose lookup listed the foreign look-alike alone and then tried to
\* stop the managed name, on a host where an earlier 'up' left containers
C21_Witness ==
    /\ command = "down"
    /\ host[LookalikeName] = "running"
    /\ host[ContainingName] = "running"
    /\ host[ContainerName("Traefik")] = "running"
    /\ \E i \in CallIndexes :
          /\ calls[i].op = "list"
          /\ calls[i].id = ContainerID(LookalikeName)
          /\ i < Len(calls)
          /\ calls[i + 1].op = "stop"
          /\ calls[i + 1].name = ContainerName("MailSlurper")

====
